---- MODULE Spec2Model ----
(***************************************************************************)
(* A model of issuebot: the debounce cache (debounce.go), the stub-issue   *)
(* manager (checkStubIssue, createStubIssue) and the disposition engine    *)
(* (checkPullRequest with its two classifiers).  The code-hosting service  *)
(* is modelled by the state it holds (commits, issues, comments, commit    *)
(* statuses) and by the outcome of each call, which may succeed or fail.   *)
(***************************************************************************)
EXTENDS Integers, Sequences, FiniteSets, TLC

(***************************************************************************)
(* Strings.  A Go string is a TLA+ string, one character of the TLA+        *)
(* string for each rune of the Go string; the characters are those a TLA+  *)
(* string holds, U+0000 to U+00FF.  The operators below are the functions  *)
(* of package strings that the code calls.                                 *)
(***************************************************************************)

\* The i-th character of s (1-based) as a one-character string.
CharAt(s, i) == SubSeq(s, i, i)

\* strings.HasPrefix(s, prefix)
HasPrefix(s, prefix) ==
    /\ Len(s) >= Len(prefix)
    /\ SubSeq(s, 1, Len(prefix)) = prefix

\* strings.Contains(s, substr)
Contains(s, substr) ==
    \E i \in 1..(Len(s) - Len(substr) + 1) :
        SubSeq(s, i, i + Len(substr) - 1) = substr

\* The capital letters up to U+00FF (A to Z, U+00C0 to U+00DE without the
\* multiplication sign U+00D7), and the lower-case letter of each at the
\* same position.
UpperLetters == "ABCDEFGHIJKLMNOPQRSTUVWXYZÀÁÂÃÄÅÆÇÈÉÊËÌÍÎÏÐÑÒÓÔÕÖØÙÚÛÜÝÞ"
LowerLetters == "abcdefghijklmnopqrstuvwxyzàáâãäåæçèéêëìíîïðñòóôõöøùúûüýþ"

\* The lower-case letter of each capital letter.
LowerOf ==
    [c \in { CharAt(UpperLetters, k) : k \in 1..Len(UpperLetters) } |->
        CharAt(LowerLetters,
               CHOOSE k \in 1..Len(UpperLetters) : CharAt(UpperLetters, k) = c)]

\* unicode.ToLower of one character.
LowerChar(c) == IF c \in DOMAIN LowerOf THEN LowerOf[c] ELSE c

\* strings.ToLower(s)
RECURSIVE ToLower(_)
ToLower(s) ==
    IF Len(s) = 0 THEN ""
    ELSE LowerChar(CharAt(s, 1)) \o ToLower(SubSeq(s, 2, Len(s)))

\* A variant of EqualFold that compares the strings as they are written.
EqualExact(a, b) == a = b

\* strings.EqualFold(a, b): equality under simple case folding.  Up to
\* U+00FF two characters fold together exactly when they have the same
\* lower-case letter.
EqualFold(a, b) == ToLower(a) = ToLower(b)

\* The position of the first newline of s, or 0 when it has none.
FirstNewline(s) ==
    IF \E i \in 1..Len(s) : CharAt(s, i) = "\n"
    THEN CHOOSE i \in 1..Len(s) :
            /\ CharAt(s, i) = "\n"
            /\ \A j \in 1..(i - 1) : CharAt(s, j) # "\n"
    ELSE 0

\* strings.Split(s, "\n"): the lines of s, at least one (the empty string
\* splits into one empty line).
RECURSIVE SplitLines(_)
SplitLines(s) ==
    LET n == FirstNewline(s) IN
    IF n = 0 THEN << s >>
    ELSE << SubSeq(s, 1, n - 1) >> \o SplitLines(SubSeq(s, n + 1, Len(s)))

(***************************************************************************)
(* Dispositions (pullRequestStatus), ordered, higher being better.         *)
(***************************************************************************)
prFailed  == 0
prSkipped == 1
prCleanup == 2
prSmall   == 3
prRevert  == 4
prBot     == 5
prLinked  == 6

Dispositions == prFailed..prLinked

\* The linking verbs of checkCommitMessage.
verbs == << "close", "closes", "closed", "fix", "fixes", "fixed",
            "resolve", "resolves", "resolved", "updates", "for" >>

\* A variant of LineLinks that compares the line as it is written.
LineLinksCaseSensitive(line) ==
    \E v \in 1..Len(verbs) :
        /\ HasPrefix(line, verbs[v])
        /\ (Contains(line, "#") \/ Contains(line, "github.com"))

\* The test of one line inside the loop of checkCommitMessage: some verb is
\* a prefix of the lowered line and the lowered line holds "#" or
\* "github.com".
LineLinks(line) ==
    LET lower == ToLower(line) IN
    \E v \in 1..Len(verbs) :
        /\ HasPrefix(lower, verbs[v])
        /\ (Contains(lower, "#") \/ Contains(lower, "github.com"))

\* A variant of checkCommitMessage that looks for a linking line before it
\* looks for a revert.
checkCommitMessageLinkFirst(message) ==
    LET lines == SplitLines(message) IN
    IF \E i \in 1..Len(lines) : LineLinks(lines[i]) THEN prLinked
    ELSE IF HasPrefix(lines[1], "Revert") THEN prRevert
    ELSE IF Contains(message, "skip-issuebot") THEN prSkipped
    ELSE IF Contains(message, "#cleanup") THEN prCleanup
    ELSE prFailed

\* A variant of checkCommitMessage that tests for "#cleanup" before
\* "skip-issuebot".
checkCommitMessageCleanupFirst(message) ==
    LET lines == SplitLines(message) IN
    IF HasPrefix(lines[1], "Revert") THEN prRevert
    ELSE IF \E i \in 1..Len(lines) : LineLinks(lines[i]) THEN prLinked
    ELSE IF Contains(message, "#cleanup") THEN prCleanup
    ELSE IF Contains(message, "skip-issuebot") THEN prSkipped
    ELSE prFailed

\* checkCommitMessage(message)
checkCommitMessage(message) ==
    LET lines == SplitLines(message) IN
    IF HasPrefix(lines[1], "Revert") THEN prRevert
    ELSE IF \E i \in 1..Len(lines) : LineLinks(lines[i]) THEN prLinked
    ELSE IF Contains(message, "skip-issuebot") THEN prSkipped
    ELSE IF Contains(message, "#cleanup") THEN prCleanup
    ELSE prFailed

(***************************************************************************)
(* Optional values.  A nil pointer is the empty sequence and a pointer to  *)
(* v is << v >>.                                                           *)
(***************************************************************************)
Nil == << >>
Ptr(v) == << v >>

\* A *github.CommitAuthor with the given name and e-mail (each Nil or Ptr).
CommitAuthor(name, email) == Ptr([Name |-> name, Email |-> email])

\* (*CommitAuthor).GetName(): the name, or "" when the pointer is nil.
GetName(u) == IF u = Nil \/ u[1].Name = Nil THEN "" ELSE u[1].Name[1]

(***************************************************************************)
(* The bot-author pattern.  botAuthorRE is nil or a compiled pattern; the  *)
(* patterns modelled are the anchored ones ^pre([-\w]+)post$ (group) and   *)
(* ^pre[-\w]+post$ (no group), pre being literal text and post being       *)
(* pattern text in which "." stands for any character but a newline and    *)
(* every other character for itself.                                       *)
(***************************************************************************)
WordChars == "abcdefghijklmnopqrstuvwxyzABCDEFGHIJKLMNOPQRSTUVWXYZ0123456789_-"

IsWordChar(c) == \E k \in 1..Len(WordChars) : CharAt(WordChars, k) = c

\* Whether the text s matches the pattern text post from its first character
\* to its last: the same length, any character but "\n" at a ".", and the
\* character of post elsewhere.
MatchesText(post, s) ==
    /\ Len(s) = Len(post)
    /\ \A k \in 1..Len(post) :
          IF CharAt(post, k) = "." THEN CharAt(s, k) # "\n"
          ELSE CharAt(s, k) = CharAt(post, k)

\* re.FindStringSubmatch(s): Nil when s does not match, else a pointer to
\* the submatches, element 1 the whole match (Go's m[0]) and element 2 the
\* text of the group (Go's m[1]) when the pattern has one.
FindStringSubmatch(re, s) ==
    LET mid == SubSeq(s, Len(re.pre) + 1, Len(s) - Len(re.post)) IN
    IF /\ Len(s) > Len(re.pre) + Len(re.post)
       /\ HasPrefix(s, re.pre)
       /\ MatchesText(re.post, SubSeq(s, Len(s) - Len(re.post) + 1, Len(s)))
       /\ \A k \in 1..Len(mid) : IsWordChar(CharAt(mid, k))
    THEN Ptr(IF re.group THEN << s, mid >> ELSE << s >>)
    ELSE Nil

\* The white-space characters up to U+00FF: tab, newline, vertical tab,
\* form feed, carriage return, space, U+0085 and U+00A0.
Spaces == "\t\n\f\r  "

\* unicode.IsSpace(c), as strings.Fields sees one character.
IsSpace(c) == \E k \in 1..Len(Spaces) : CharAt(Spaces, k) = c

\* strings.Join(strings.Fields(s), "-"): the words of s joined by hyphens.
RECURSIVE JoinFields(_, _, _)
JoinFields(s, acc, word) ==
    IF Len(s) = 0
    THEN IF word = "" THEN acc
         ELSE IF acc = "" THEN word ELSE acc \o "-" \o word
    ELSE LET c == CharAt(s, 1)
             rest == SubSeq(s, 2, Len(s)) IN
         IF IsSpace(c)
         THEN IF word = "" THEN JoinFields(rest, acc, "")
              ELSE JoinFields(rest, IF acc = "" THEN word ELSE acc \o "-" \o word, "")
         ELSE JoinFields(rest, acc, word \o c)

\* A variant of NoIdentity that does not test the name.
NoIdentityEmailOnly(u) == u = Nil \/ u[1].Email = Nil

\* u == nil || u.Name == nil || u.Email == nil
NoIdentity(u) == u = Nil \/ u[1].Name = Nil \/ u[1].Email = Nil

\* Whether *u.Name and *u.Email can be read; reading through a nil pointer
\* panics.
CanDeref(u) == u # Nil /\ u[1].Name # Nil /\ u[1].Email # Nil

\* isAutomationBotAuthor(u) under the pattern re (Nil or a pointer): "true",
\* "false", or "panic" where the code indexes m[1] of a match that has no
\* second element.
isAutomationBotAuthor(re, u) ==
    IF re = Nil THEN "false"
    ELSE IF NoIdentity(u) THEN "false"
    ELSE IF ~CanDeref(u) THEN "panic"
    ELSE LET m == FindStringSubmatch(re[1], u[1].Email[1]) IN
         IF m = Nil THEN "false"
         ELSE IF Len(m[1]) > 0
              THEN IF Len(m[1]) < 2 THEN "panic"
                   ELSE IF EqualFold(JoinFields(u[1].Name[1], "", ""), m[1][2])
                        THEN "true" ELSE "false"
              ELSE "true"

\* A variant of checkCommitMetadata that asks isAutomationBotAuthor before it
\* looks for "[bot]" in the name.
checkCommitMetadataPatternFirst(re, u) ==
    IF u # Nil
    THEN LET b == isAutomationBotAuthor(re, u) IN
         IF b = "panic" THEN -1
         ELSE IF b = "true" THEN prBot
         ELSE IF Contains(GetName(u), "[bot]") THEN prBot ELSE prFailed
    ELSE prFailed

\* checkCommitMetadata(repoCommit) for a commit whose git author is u (Nil
\* when the commit or its author is absent): prBot, prFailed, or -1 where
\* isAutomationBotAuthor panics.
checkCommitMetadata(re, u) ==
    IF u # Nil
    THEN IF Contains(GetName(u), "[bot]") THEN prBot
         ELSE LET b == isAutomationBotAuthor(re, u) IN
              IF b = "panic" THEN -1
              ELSE IF b = "true" THEN prBot ELSE prFailed
    ELSE prFailed

(***************************************************************************)
(* Program constants.                                                      *)
(***************************************************************************)
\* debounceInterval, in seconds.
debounceInterval == 5

\* The diff size below which a pull request is accepted as small.
smallDiffLimit == 5

missingCommitExplanation ==
    "Any non-trivial git commit must link to a GitHub issue tracking the work. Edit each commit with a tag like \"Updates #nn\", and update the PR."

issuebotStubLabel == "issuebot-stub"
issueTitleTemplate == "Placeholder issue for PR #%d"
issueCommentTemplate ==
    ":robot: IssueBot here. I noticed none of the commits on this PR has an issue attached. I have filed issue #%d for you. Please update it at your convenience."

\* fmt.Sprintf(template, n) for a template holding one %d: the template and
\* the number it is filled with.
Sprintf(template, n) == << template, n >>

(***************************************************************************)
(* Bounds of the model.                                                    *)
(***************************************************************************)
NumWorkers == 2      \* concurrent webhook handlers
NumPRs == 2          \* pull requests of the repository
NumSHAs == 2         \* head commits a delivery may carry
MaxDeliveries == 2   \* pull-request events handled in one run
MaxTime == 6         \* the clock runs from 0 to MaxTime
TickStep == 3        \* seconds by which the clock of Spec advances
MaxPerPage == 2      \* commits the listing returns per page
MaxCommits == 2      \* commits of a pull request of SpecEval
MaxCalls == 3        \* calls of debounce in one run of SpecDebounce

Workers == 1..NumWorkers
PRs == 1..NumPRs
SHAs == 1..NumSHAs

(***************************************************************************)
(* Commits.  A commit is its message, its git author and its diff size.    *)
(***************************************************************************)
Commit(message, author, total) ==
    [message |-> message, author |-> author, stats |-> total]

Human == CommitAuthor(Ptr("Alice"), Ptr("alice@example.com"))
TaggedBot == CommitAuthor(Ptr("dependabot[bot]"),
                          Ptr("49699333+dependabot[bot]@users.noreply.github.com"))

cPlain   == Commit("Add a feature", Human, 100)
cTypo    == Commit("Fixed the typo", Human, 2)
cSkip    == Commit("skip-issuebot: will file later", Human, 10)
cSkip3   == Commit("wip\nskip-issuebot", Human, 3)
cCleanup == Commit("tidy\nJust a #cleanup", Human, 10)
cRevert  == Commit("Revert 0123456789abcdef", Human, 10)
cBot     == Commit("Bump dependency", TaggedBot, 10)
cLinked  == Commit("Add a feature\n\nUpdates #42", Human, 10)

\* The login of the author of each pull request.
prUser == [p \in PRs |-> "alice"]

VARIABLES
    clock,             \* time.Now(), in seconds
    alive,             \* FALSE once log.Fatalf has ended the process
    enableStubIssues,  \* the flag -enable-stub-issues
    botAuthorRE,       \* the compiled -bot-author-regexp, or Nil
    prCommits,         \* the service: the commits of each pull request
    perPage,           \* the service: commits per page of a listing
    issues,            \* the service: the issues, by number
    comments,          \* the service: each pull request's comment thread
    statuses,          \* the service: the commit statuses written
    cache,             \* debounceCache.m: key -> last checked
    mu,                \* debounceCache.Mutex: 0, or the worker holding it
    pullsChecked,      \* the metric issuebot_pull_requests_checked
    ev,                \* each worker's call of checkPullRequest
    callLog,           \* the calls that returned, where a specification logs them
    sample             \* SpecMessage, SpecAuthor: the classifier input at hand

vars == << clock, alive, enableStubIssues, botAuthorRE, prCommits, perPage,
           issues, comments, statuses, cache, mu, pullsChecked, ev, callLog,
           sample >>

config == << enableStubIssues, botAuthorRE, prCommits, perPage, sample >>
service == << issues, comments, statuses >>

\* fmt.Sprintf("%s#%d", repo.GetFullName(), pr.GetNumber()) for the one
\* repository of the model.
Key(p) == Sprintf("tailscale/example#%d", p)
Keys == { Key(p) : p \in PRs }

\* A worker that handles no request.
Idle ==
    [pc |-> "idle", pr |-> 0, sha |-> 0, now |-> 0, when |-> 0, ok |-> FALSE,
     skip |-> FALSE, status |-> prFailed, totalDiff |-> 0, page |-> 0,
     repoCommits |-> << >>, i |-> 0, nextPage |-> 0, issue |-> 0,
     err |-> "", calls |-> << >>]

Max(a, b) == IF a >= b THEN a ELSE b
Min(a, b) == IF a <= b THEN a ELSE b

\* The remote calls evaluation w has made so far, each << operation, outcome >>.
Called(w, op, outcome) ==
    \E k \in 1..Len(ev[w].calls) : ev[w].calls[k] = << op, outcome >>

\* Record r with the fields of u replacing its own.
With(r, u) == [f \in DOMAIN r |-> IF f \in DOMAIN u THEN u[f] ELSE r[f]]

\* Worker w's record changes by u, and by one more remote call when op is
\* not "".
Step(w, u, op, outcome) ==
    ev' = [ev EXCEPT ![w] =
              With(With(@, u),
                   IF op = "" THEN [pc |-> u.pc]
                   ELSE [calls |-> Append(@.calls, << op, outcome >>)])]

(***************************************************************************)
(* debounce (debounce.go)                                                  *)
(***************************************************************************)

\* A variant of Purge that also drops an entry exactly one interval old.
PurgeAtInterval(m, now) ==
    [k \in { k \in DOMAIN m : ~(now - m[k] >= debounceInterval) } |-> m[k]]

\* The cache without its stale entries (the loop of debounce).
Purge(m, now) ==
    [k \in { k \in DOMAIN m : ~(now - m[k] > debounceInterval) } |-> m[k]]

\* A variant of LockFree for a cache without its mutex.
LockAlwaysFree(holder) == TRUE

\* debounceCache.Lock() succeeds when no worker holds the mutex.
LockFree(holder) == holder = 0

\* What debounce returns: FALSE (proceed) for a key that was absent, else
\* whether the entry is within the interval.
DebounceResult(now, when, ok) ==
    IF ~ok THEN FALSE ELSE now - when <= debounceInterval

\* A variant of Insert that stores the time of every call.
InsertRefreshing(m, key, now, ok) ==
    [k \in DOMAIN m \cup {key} |-> IF k = key THEN now ELSE m[k]]

\* The cache as debounce leaves it: an absent key is inserted with now, a
\* present key keeps its time.
Insert(m, key, now, ok) ==
    IF ~ok THEN [k \in DOMAIN m \cup {key} |-> IF k = key THEN now ELSE m[k]]
    ELSE m

\* handleWebhook receives a pull request event for p with head s on a free
\* worker, counts it and calls checkPullRequest, which calls debounce.
Deliver(w, p, s) ==
    /\ alive
    /\ ev[w].pc \in {"idle", "done", "aborted"}
    /\ pullsChecked < MaxDeliveries
    /\ pullsChecked' = pullsChecked + 1
    /\ ev' = [ev EXCEPT ![w] = With(Idle, [pc |-> "debounce", pr |-> p, sha |-> s])]
    /\ UNCHANGED << clock, alive, config, service, cache, mu, callLog >>

\* debounce up to its test of ok: Lock(), now := time.Now(), the purge loop,
\* when, ok := debounceCache.m[key].
DebounceEnter(w) ==
    /\ alive
    /\ ev[w].pc = "debounce"
    /\ LockFree(mu)
    /\ mu' = w
    /\ LET m == Purge(cache, clock)
           key == Key(ev[w].pr)
           ok == key \in DOMAIN m IN
       /\ cache' = m
       /\ Step(w, [pc |-> "locked", now |-> clock, ok |-> ok,
                   when |-> IF ok THEN m[key] ELSE 0], "", "")
    /\ UNCHANGED << clock, alive, config, service, pullsChecked, callLog >>

\* The rest of debounce (the insert of an absent key, the return, the deferred
\* Unlock()) and what checkPullRequest does with the answer: return when it
\* is skip, else start the scan with status prFailed and totalDiff 0.
DebounceReturn(w) ==
    /\ alive
    /\ ev[w].pc = "locked"
    /\ cache' = Insert(cache, Key(ev[w].pr), ev[w].now, ev[w].ok)
    /\ mu' = 0
    /\ LET skip == DebounceResult(ev[w].now, ev[w].when, ev[w].ok) IN
       Step(w, [pc |-> IF skip THEN "done" ELSE "list", skip |-> skip,
                now |-> 0, when |-> 0, ok |-> FALSE,
                status |-> prFailed, totalDiff |-> 0, page |-> 0], "", "")
    /\ UNCHANGED << clock, alive, config, service, pullsChecked, callLog >>

\* Time passes.
Tick(d) ==
    /\ alive
    /\ clock + d <= MaxTime
    /\ clock' = clock + d
    /\ UNCHANGED << alive, config, service, cache, mu, pullsChecked, ev, callLog >>

(***************************************************************************)
(* The service's answers.                                                  *)
(***************************************************************************)

\* Page n of the commits cs, n = 0 asking for the first page: the positions
\* in cs of its commits.
PageOf(cs, n, per) ==
    LET first == (Max(n, 1) - 1) * per + 1
        last == Min(Max(n, 1) * per, Len(cs)) IN
    [k \in 1..Max(last - first + 1, 0) |-> first + k - 1]

\* resp.NextPage of that answer: 0 on the last page.
NextPageOf(cs, n, per) ==
    IF Max(n, 1) * per < Len(cs) THEN Max(n, 1) + 1 ELSE 0

\* The open issues with the stub label assigned to login (ListByRepo).
ListByRepo(login) ==
    { n \in 1..Len(issues) :
        /\ issues[n].assignee = login
        /\ issuebotStubLabel \in issues[n].labels
        /\ issues[n].state = "open" }

\* issueCommentRE applied to a comment body and strconv.Atoi of its group:
\* Nil when the body does not match, else a pointer to the number.
MatchComment(body) ==
    IF body[1] = issueCommentTemplate THEN Ptr(body[2]) ELSE Nil

(***************************************************************************)
(* checkPullRequest                                                        *)
(***************************************************************************)

\* A variant of Accumulate that keeps the disposition seen last.
AccumulateLast(status, disp) == disp

\* if disp > status { status = disp }
Accumulate(status, disp) == IF disp > status THEN disp ELSE status

\* A variant of KeepScanning that stops at a skipped commit.
KeepScanningBelowSkipped(status) == status < prSkipped

\* The loop condition of the scan, and the negation of its break test.
KeepScanning(status) == status <= prSkipped

\* The disposition of one commit: both classifiers applied in turn.
CommitDisposition(status, c) ==
    Accumulate(Accumulate(status, checkCommitMessage(c.message)),
               checkCommitMetadata(botAuthorRE, c.author))

\* A variant of SmallDiffRule that accepts a diff of exactly the limit.
SmallDiffRuleInclusive(status, totalDiff) ==
    IF status <= prSkipped /\ totalDiff <= smallDiffLimit THEN prSmall ELSE status

\* The small-diff rule applied after the scan.
SmallDiffRule(status, totalDiff) ==
    IF status <= prSkipped /\ totalDiff < smallDiffLimit THEN prSmall ELSE status

\* Whether the stub-issue manager is invoked.
WantsStub(status, enabled) == status = prSkipped /\ enabled

\* A variant of Rejects that also rejects a skipped pull request.
RejectsUpToSkipped(status) == status <= prSkipped

\* Whether the pull request is rejected.
Rejects(status) == status = prFailed

\* The RepoStatus annotateCommitStatus builds.
RepoStatus(sha, failed) ==
    IF failed
    THEN [sha |-> sha, context |-> "issuebot", state |-> "failure",
          description |-> missingCommitExplanation]
    ELSE [sha |-> sha, context |-> "issuebot", state |-> "success",
          description |-> ""]

\* A variant of Fatal that logs the error and leaves the scan as if it had
\* ended.
FatalLogged(w, op) ==
    /\ alive' = alive
    /\ Step(w, [pc |-> "scanned"], op, "err")

\* log.Fatalf ends the process: no worker takes another step.
Fatal(w, op) ==
    /\ alive' = FALSE
    /\ Step(w, [pc |-> "fatal"], op, "err")

\* A variant of AfterPage that never asks for a second page.
AfterPageFirstOnly(status, nextPage) == "scanned"

\* Where the scan goes after the commits of a page: to the next page, or out
\* of the loop.
AfterPage(status, nextPage) ==
    IF nextPage # 0 /\ KeepScanning(status) THEN "list" ELSE "scanned"

\* client.PullRequests.ListCommits
ListCommits(w) ==
    /\ alive
    /\ ev[w].pc = "list"
    /\ \/ /\ Fatal(w, "ListCommits")
          /\ UNCHANGED << clock, config, service, cache, mu, pullsChecked, callLog >>
       \/ /\ LET cs == prCommits[ev[w].pr]
                 page == PageOf(cs, ev[w].page, perPage)
                 next == NextPageOf(cs, ev[w].page, perPage) IN
             Step(w, [pc |-> IF Len(page) > 0 THEN "get"
                             ELSE AfterPage(ev[w].status, next),
                      repoCommits |-> page, i |-> 1, nextPage |-> next,
                      page |-> IF Len(page) = 0 /\ next # 0 THEN next
                               ELSE ev[w].page],
                  "ListCommits", "ok")
          /\ UNCHANGED << clock, alive, config, service, cache, mu, pullsChecked,
                          callLog >>

\* client.Repositories.GetCommit for the commit at hand, and the rest of the
\* loop body; after the last commit of the page, or at the break, the test of
\* resp.NextPage.
GetCommit(w) ==
    /\ alive
    /\ ev[w].pc = "get"
    /\ \/ /\ Fatal(w, "GetCommit")
          /\ UNCHANGED << clock, config, service, cache, mu, pullsChecked, callLog >>
       \/ /\ LET c == prCommits[ev[w].pr][ev[w].repoCommits[ev[w].i]]
                 total == ev[w].totalDiff + c.stats
                 st == CommitDisposition(ev[w].status, c)
                 last == ~KeepScanning(st) \/ ev[w].i = Len(ev[w].repoCommits) IN
             IF checkCommitMetadata(botAuthorRE, c.author) = -1
             THEN Step(w, [pc |-> "aborted", totalDiff |-> total,
                           status |-> Accumulate(ev[w].status,
                                                 checkCommitMessage(c.message))],
                       "GetCommit", "ok")
             ELSE Step(w, [pc |-> IF last THEN AfterPage(st, ev[w].nextPage)
                                  ELSE "get",
                           totalDiff |-> total, status |-> st,
                           i |-> IF last THEN ev[w].i ELSE ev[w].i + 1,
                           page |-> IF last /\ ev[w].nextPage # 0
                                    THEN ev[w].nextPage ELSE ev[w].page],
                       "GetCommit", "ok")
          /\ UNCHANGED << clock, alive, config, service, cache, mu, pullsChecked,
                          callLog >>

\* After the scan: the small-diff rule, then the choice between the stub-issue
\* manager, the failing status and the plain return.
Finish(w) ==
    /\ alive
    /\ ev[w].pc = "scanned"
    /\ LET st == SmallDiffRule(ev[w].status, ev[w].totalDiff) IN
       Step(w, [pc |-> IF WantsStub(st, enableStubIssues) THEN "listIssues"
                       ELSE IF Rejects(st) THEN "annotate"
                       ELSE "done",
                status |-> st], "", "")
    /\ UNCHANGED << clock, alive, config, service, cache, mu, pullsChecked, callLog >>

(***************************************************************************)
(* The stub-issue manager: checkStubIssue and createStubIssue as           *)
(* checkPullRequest calls them.                                            *)
(***************************************************************************)

\* The issue createStubIssue asks for.
IssueRequest(p) ==
    [title |-> Sprintf(issueTitleTemplate, p), assignee |-> prUser[p],
     labels |-> {issuebotStubLabel}, state |-> "open"]

\* The number checkStubIssue returns from a listing: that of a listed issue
\* with the wanted title, or 0.
TitleMatch(listed, p) ==
    LET hits == { n \in listed : issues[n].title = Sprintf(issueTitleTemplate, p) } IN
    IF hits = {} THEN 0 ELSE CHOOSE n \in hits : \A o \in hits : o <= n

\* The number checkStubIssue returns from a comment thread: that of the first
\* comment the pattern recognizes, or 0.
CommentMatch(thread) ==
    LET hits == { k \in 1..Len(thread) : MatchComment(thread[k]) # Nil } IN
    IF hits = {} THEN 0
    ELSE MatchComment(thread[CHOOSE k \in hits : \A o \in hits : k <= o])[1]

\* A variant of AfterCheck that creates an issue whatever the lookup found.
AfterCheckAlwaysCreate(issue) == "createIssue"

\* A variant of AfterCheck that rejects the pull request when the lookup
\* returned no issue.
AfterCheckRejects(issue) == IF issue > 0 THEN "done" ELSE "annotate"

\* A variant of AfterCheck that takes the answer 0 for an issue number.
AfterCheckZeroFound(issue) == IF issue >= 0 THEN "done" ELSE "createIssue"

\* Where checkPullRequest goes once checkStubIssue has returned issue:
\* createStubIssue is called unless issue > 0.
AfterCheck(issue) == IF issue > 0 THEN "done" ELSE "createIssue"

\* cli.Issues.ListByRepo, and the search of its answer for the title.
ListIssues(w) ==
    /\ alive
    /\ ev[w].pc = "listIssues"
    /\ \/ Step(w, [pc |-> AfterCheck(0), issue |-> 0, err |-> "list issues"],
               "ListByRepo", "err")
       \/ LET n == TitleMatch(ListByRepo(prUser[ev[w].pr]), ev[w].pr) IN
          Step(w, [pc |-> IF n > 0 THEN AfterCheck(n) ELSE "listComments",
                   issue |-> n, err |-> ""], "ListByRepo", "ok")
    /\ UNCHANGED << clock, alive, config, service, cache, mu, pullsChecked, callLog >>

\* cli.Issues.ListComments, and the search of its answer for the bot's comment.
ListComments(w) ==
    /\ alive
    /\ ev[w].pc = "listComments"
    /\ \/ Step(w, [pc |-> AfterCheck(0), issue |-> 0, err |-> "list comments"],
               "ListComments", "err")
       \/ LET n == CommentMatch(comments[ev[w].pr]) IN
          Step(w, [pc |-> AfterCheck(n), issue |-> n, err |-> ""],
               "ListComments", "ok")
    /\ UNCHANGED << clock, alive, config, service, cache, mu, pullsChecked, callLog >>

\* cli.Issues.Create
CreateIssue(w) ==
    /\ alive
    /\ ev[w].pc = "createIssue"
    /\ \/ /\ Step(w, [pc |-> "done", issue |-> 0, err |-> "creating issue"],
                  "Create", "err")
          /\ UNCHANGED issues
       \/ /\ issues' = Append(issues, IssueRequest(ev[w].pr))
          /\ Step(w, [pc |-> "createComment", issue |-> Len(issues) + 1,
                      err |-> ""], "Create", "ok")
    /\ UNCHANGED << clock, alive, config, comments, statuses, cache, mu,
                    pullsChecked, callLog >>

\* A variant of CreatedResult that reports a comment that could not be posted
\* as the failure of createStubIssue.
CreatedResultNeedsComment(issueNumber, posted) ==
    IF posted THEN [issue |-> issueNumber, err |-> ""]
    ELSE [issue |-> 0, err |-> "adding comment"]

\* What createStubIssue returns once the issue exists: return issueNumber, nil
\* whether or not the comment was posted.
CreatedResult(issueNumber, posted) == [issue |-> issueNumber, err |-> ""]

\* cli.Issues.CreateComment and the return of createStubIssue; a failure of
\* the call is logged and nothing more.
CreateComment(w) ==
    /\ alive
    /\ ev[w].pc = "createComment"
    /\ \/ /\ LET res == CreatedResult(ev[w].issue, FALSE) IN
             Step(w, [pc |-> "done", issue |-> res.issue, err |-> res.err],
                  "CreateComment", "err")
          /\ UNCHANGED comments
       \/ /\ comments' = [comments EXCEPT ![ev[w].pr] =
                             Append(@, Sprintf(issueCommentTemplate, ev[w].issue))]
          /\ LET res == CreatedResult(ev[w].issue, TRUE) IN
             Step(w, [pc |-> "done", issue |-> res.issue, err |-> res.err],
                  "CreateComment", "ok")
    /\ UNCHANGED << clock, alive, config, issues, statuses, cache, mu,
                    pullsChecked, callLog >>

\* annotateCommitStatus(*pr.Head.SHA, true)
Annotate(w) ==
    /\ alive
    /\ ev[w].pc = "annotate"
    /\ \/ /\ Fatal(w, "CreateStatus")
          /\ UNCHANGED << clock, config, service, cache, mu, pullsChecked, callLog >>
       \/ /\ statuses' = statuses \cup {RepoStatus(ev[w].sha, TRUE)}
          /\ Step(w, [pc |-> "done"], "CreateStatus", "ok")
          /\ UNCHANGED << clock, alive, config, issues, comments, cache, mu,
                          pullsChecked, callLog >>

(***************************************************************************)
(* Spec: concurrent deliveries for the pull requests of one repository.    *)
(***************************************************************************)

\* The commit histories the pull requests of Spec may have.
Histories == { << cPlain >>, << cSkip >> }

InitService ==
    /\ clock = 0
    /\ alive = TRUE
    /\ issues = << >>
    /\ comments = [p \in PRs |-> << >>]
    /\ statuses = {}
    /\ cache = << >>
    /\ mu = 0
    /\ pullsChecked = 0
    /\ ev = [w \in Workers |-> Idle]
    /\ callLog = << >>

InitState ==
    /\ InitService
    /\ botAuthorRE = Nil
    /\ sample = Nil

Init ==
    /\ InitState
    /\ enableStubIssues = TRUE
    /\ prCommits \in [PRs -> Histories]
    /\ perPage = MaxPerPage

Evaluate(w) ==
    \/ DebounceEnter(w)
    \/ DebounceReturn(w)
    \/ ListCommits(w)
    \/ GetCommit(w)
    \/ Finish(w)
    \/ ListIssues(w)
    \/ ListComments(w)
    \/ CreateIssue(w)
    \/ CreateComment(w)
    \/ Annotate(w)

Next ==
    \/ Tick(TickStep)
    \/ \E w \in Workers :
          \/ \E p \in PRs, s \in SHAs : Deliver(w, p, s)
          \/ Evaluate(w)

Spec == Init /\ [][Next]_vars

(***************************************************************************)
(* SpecEval: the deliveries for one pull request handled one at a time,    *)
(* over every commit history of up to MaxCommits commits, every page size  *)
(* and both settings of the stub-issue flag.                               *)
(***************************************************************************)
CommitKinds ==
    { cPlain, cTypo, cSkip, cSkip3, cCleanup, cRevert, cBot, cLinked }

HistoriesEval ==
    UNION { [1..n -> CommitKinds] : n \in 1..MaxCommits }

InitEval ==
    /\ InitState
    /\ enableStubIssues \in BOOLEAN
    /\ prCommits \in { [p \in PRs |-> h] : h \in HistoriesEval }
    /\ perPage \in 1..MaxPerPage

NextEval ==
    \/ Tick(debounceInterval + 1)
    \/ Deliver(1, 1, 1)
    \/ Evaluate(1)

SpecEval == InitEval /\ [][NextEval]_vars

(***************************************************************************)
(* SpecDebounce: concurrent callers of debounce, the clock advancing by    *)
(* one second at a time.  callLog lists the calls in the order in which    *)
(* they returned.                                                          *)
(***************************************************************************)

\* A worker calls debounce for pull request p.
Call(w, p) ==
    /\ alive
    /\ ev[w].pc = "idle"
    /\ Len(callLog) + Cardinality({ v \in Workers : ev[v].pc # "idle" }) < MaxCalls
    /\ ev' = [ev EXCEPT ![w] = With(Idle, [pc |-> "debounce", pr |-> p])]
    /\ UNCHANGED << clock, alive, config, service, cache, mu, pullsChecked, callLog >>

\* The rest of debounce, as in DebounceReturn, and the caller's note of the
\* answer.
CallReturn(w) ==
    /\ alive
    /\ ev[w].pc = "locked"
    /\ cache' = Insert(cache, Key(ev[w].pr), ev[w].now, ev[w].ok)
    /\ mu' = 0
    /\ callLog' = Append(callLog,
                         [key |-> Key(ev[w].pr), now |-> ev[w].now,
                          skip |-> DebounceResult(ev[w].now, ev[w].when, ev[w].ok)])
    /\ ev' = [ev EXCEPT ![w] = Idle]
    /\ UNCHANGED << clock, alive, config, service, pullsChecked >>

InitDebounce ==
    /\ InitState
    /\ enableStubIssues = TRUE
    /\ prCommits = [p \in PRs |-> << cPlain >>]
    /\ perPage = MaxPerPage

NextDebounce ==
    \/ Tick(1)
    \/ \E w \in Workers :
          \/ \E p \in PRs : Call(w, p)
          \/ DebounceEnter(w)
          \/ CallReturn(w)

SpecDebounce == InitDebounce /\ [][NextDebounce]_vars

(***************************************************************************)
(* SpecMessage: checkCommitMessage applied to one commit message.  A       *)
(* message is put together from a first line, an optional line that opens  *)
(* with a verb, and an optional closing paragraph; each part carries what  *)
(* it is: whether it opens with "Revert", whether it is a line that opens  *)
(* with a verb and holds "#" or "github.com", whether it holds             *)
(* "skip-issuebot", whether it holds "#cleanup".                           *)
(***************************************************************************)
Part(text, revert, links, skip, cleanup) ==
    [text |-> text, revert |-> revert, links |-> links, skip |-> skip,
     cleanup |-> cleanup]

FirstLines ==
    { Part("", FALSE, FALSE, FALSE, FALSE),
      Part("Add a feature", FALSE, FALSE, FALSE, FALSE),
      Part("Revert 0123456789abcdef", TRUE, FALSE, FALSE, FALSE),
      Part("Reverts #12, skip-issuebot", TRUE, FALSE, TRUE, FALSE),
      Part("revert the last change", FALSE, FALSE, FALSE, FALSE),
      Part("Fixes #7 in the parser", FALSE, TRUE, FALSE, FALSE),
      Part("Format the imports, see #12", FALSE, TRUE, FALSE, FALSE),
      Part("parser: fix #7", FALSE, FALSE, FALSE, FALSE),
      Part("skip-issuebot: will file later", FALSE, FALSE, TRUE, FALSE) }

\* The verbs as they may be written.
verbsTitle == << "Close", "Closes", "Closed", "Fix", "Fixes", "Fixed",
                 "Resolve", "Resolves", "Resolved", "Updates", "For" >>
verbsUpper == << "CLOSE", "CLOSES", "CLOSED", "FIX", "FIXES", "FIXED",
                 "RESOLVE", "RESOLVES", "RESOLVED", "UPDATES", "FOR" >>

\* What may follow the verb on its line, and whether it is a reference the
\* classifier accepts.
References ==
    { [text |-> " #1", marker |-> TRUE],
      [text |-> " https://github.com/tailscale/example/issues/1", marker |-> TRUE],
      [text |-> " tailscale/example#1", marker |-> TRUE],
      [text |-> " XXX-123", marker |-> FALSE],
      [text |-> " issue 12", marker |-> FALSE],
      [text |-> "", marker |-> FALSE] }

VerbLines ==
    { Part(form[v] \o r.text, FALSE, r.marker, FALSE, FALSE) :
        form \in {verbs, verbsTitle, verbsUpper}, v \in 1..Len(verbs),
        r \in References }

Tails ==
    { Part("", FALSE, FALSE, FALSE, FALSE),
      Part("prSkipped\nskip-issuebot", FALSE, FALSE, TRUE, FALSE),
      Part("Just a #cleanup", FALSE, FALSE, FALSE, TRUE),
      Part("skip-issuebot, it is a #cleanup", FALSE, FALSE, TRUE, TRUE),
      Part("#cleanup\nskip-issuebot", FALSE, FALSE, TRUE, TRUE),
      Part("For now: skip-issuebot, #cleanup later", FALSE, TRUE, TRUE, TRUE),
      Part("Skip-Issuebot, #Cleanup", FALSE, FALSE, FALSE, FALSE),
      Part("Revert \"Add a feature\"", FALSE, FALSE, FALSE, FALSE),
      Part("See #12 for the fixes", FALSE, FALSE, FALSE, FALSE) }

MessageSamples ==
    [first : FirstLines,
     verb : VerbLines \cup {Part("", FALSE, FALSE, FALSE, FALSE)},
     tail : Tails]

\* The message of a sample: its parts, one per line, the closing paragraph
\* after an empty line.
MessageOf(sm) ==
    sm.first.text
        \o (IF sm.verb.text = "" THEN "" ELSE "\n" \o sm.verb.text)
        \o (IF sm.tail.text = "" THEN "" ELSE "\n\n" \o sm.tail.text)

InitMessage ==
    /\ InitService
    /\ botAuthorRE = Nil
    /\ enableStubIssues = TRUE
    /\ prCommits = [p \in PRs |-> << cPlain >>]
    /\ perPage = MaxPerPage
    /\ sample \in MessageSamples

\* p.checkCommitMessage(message) returns.
ClassifyMessage ==
    /\ callLog = << >>
    /\ callLog' = << [fn |-> "checkCommitMessage",
                      result |-> checkCommitMessage(MessageOf(sample))] >>
    /\ UNCHANGED << clock, alive, config, service, cache, mu, pullsChecked, ev >>

NextMessage == ClassifyMessage

SpecMessage == InitMessage /\ [][NextMessage]_vars

(***************************************************************************)
(* SpecAuthor: isAutomationBotAuthor and checkCommitMetadata applied to    *)
(* one commit author under one setting of -bot-author-regexp.  A name      *)
(* carries two readings of "spaces replaced by hyphens": every run of      *)
(* whitespace replaced by one hyphen (hyphened), and its words joined by   *)
(* hyphens (joined).  An e-mail carries the text between "noreply+" and    *)
(* "@example", any character but a newline and "com" when it has that form *)
(* (captured).                                                             *)
(***************************************************************************)
\* The pattern of the tests, ^noreply\+([-\w]+)@example.com$, whose "." is
\* not escaped, and the same pattern without its group.
GroupPattern == Ptr([pre |-> "noreply+", post |-> "@example.com", group |-> TRUE])
BarePattern == Ptr([pre |-> "noreply+", post |-> "@example.com", group |-> FALSE])

Patterns == { Nil, GroupPattern, BarePattern }

NameSample(ptr, hyphened, joined) ==
    [ptr |-> ptr, hyphened |-> hyphened, joined |-> joined]

Names ==
    { NameSample(Nil, "", ""),
      NameSample(Ptr(""), "", ""),
      NameSample(Ptr("Foo"), "Foo", "Foo"),
      NameSample(Ptr("Apple"), "Apple", "Apple"),
      NameSample(Ptr("cherry"), "cherry", "cherry"),
      NameSample(Ptr("Pear Plum"), "Pear-Plum", "Pear-Plum"),
      NameSample(Ptr("Pear  Plum"), "Pear-Plum", "Pear-Plum"),
      NameSample(Ptr("Pear\tPlum"), "Pear-Plum", "Pear-Plum"),
      NameSample(Ptr("Pear\fPlum"), "Pear-Plum", "Pear-Plum"),
      NameSample(Ptr("Pear Plum"), "Pear-Plum", "Pear-Plum"),
      NameSample(Ptr("École"), "École", "École"),
      NameSample(Ptr("Pear-Plum"), "Pear-Plum", "Pear-Plum"),
      NameSample(Ptr("Foo Bar"), "Foo-Bar", "Foo-Bar"),
      NameSample(Ptr("OSS Updater"), "OSS-Updater", "OSS-Updater"),
      NameSample(Ptr(" Apple"), "-Apple", "Apple"),
      NameSample(Ptr("Apple "), "Apple-", "Apple"),
      NameSample(Ptr(" "), "-", ""),
      NameSample(Ptr("dependabot[bot]"), "dependabot[bot]", "dependabot[bot]") }

EmailSample(ptr, captured) == [ptr |-> ptr, captured |-> captured]

Emails ==
    { EmailSample(Nil, Nil),
      EmailSample(Ptr(""), Nil),
      EmailSample(Ptr("foo@bar.com"), Nil),
      EmailSample(Ptr("foo@example.com"), Nil),
      EmailSample(Ptr("noreply@example"), Nil),
      EmailSample(Ptr("noreply@example.com"), Nil),
      EmailSample(Ptr("noreply+@example.com"), Nil),
      EmailSample(Ptr("xnoreply+apple@example.com"), Nil),
      EmailSample(Ptr("noreply+apple@example.com.org"), Nil),
      EmailSample(Ptr("noreply+pear.plum@example.com"), Nil),
      EmailSample(Ptr("49699333+dependabot[bot]@users.noreply.github.com"), Nil),
      EmailSample(Ptr("noreply+école@example.com"), Nil),
      EmailSample(Ptr("noreply+apple@example\ncom"), Nil),
      EmailSample(Ptr("noreply+apple@example.com"), Ptr("apple")),
      EmailSample(Ptr("noreply+apple@exampleXcom"), Ptr("apple")),
      EmailSample(Ptr("noreply+apple@example-com"), Ptr("apple")),
      EmailSample(Ptr("noreply+APPLE@example.com"), Ptr("APPLE")),
      EmailSample(Ptr("noreply+applf@example.com"), Ptr("applf")),
      EmailSample(Ptr("noreply+-apple@example.com"), Ptr("-apple")),
      EmailSample(Ptr("noreply+apple-@example.com"), Ptr("apple-")),
      EmailSample(Ptr("noreply+-@example.com"), Ptr("-")),
      EmailSample(Ptr("noreply+bar@example.com"), Ptr("bar")),
      EmailSample(Ptr("noreply+CHERRY@example.com"), Ptr("CHERRY")),
      EmailSample(Ptr("noreply+pear-plum@example.com"), Ptr("pear-plum")),
      EmailSample(Ptr("noreply+pear--plum@example.com"), Ptr("pear--plum")),
      EmailSample(Ptr("noreply+foo_bar@example.com"), Ptr("foo_bar")),
      EmailSample(Ptr("noreply+baz-quux@example.com"), Ptr("baz-quux")),
      EmailSample(Ptr("noreply+oss-updater@example.com"), Ptr("oss-updater")) }

\* The authors: a nil *CommitAuthor, and every pairing of a name and an
\* e-mail.
AuthorSamples ==
    { [present |-> FALSE, name |-> NameSample(Nil, "", ""),
       email |-> EmailSample(Nil, Nil)] }
    \cup [present : {TRUE}, name : Names, email : Emails]

\* The *github.CommitAuthor of a sample.
AuthorOf(sm) ==
    IF sm.present THEN CommitAuthor(sm.name.ptr, sm.email.ptr) ELSE Nil

InitAuthor ==
    /\ InitService
    /\ botAuthorRE \in Patterns
    /\ enableStubIssues = TRUE
    /\ prCommits = [p \in PRs |-> << cPlain >>]
    /\ perPage = MaxPerPage
    /\ sample \in AuthorSamples

\* The call of fn on the sample has not returned yet.
Pending(fn) == \A k \in 1..Len(callLog) : callLog[k].fn # fn

\* isAutomationBotAuthor(u) returns or panics.
ClassifyAuthor ==
    /\ Pending("isAutomationBotAuthor")
    /\ callLog' = Append(callLog,
                         [fn |-> "isAutomationBotAuthor",
                          result |-> isAutomationBotAuthor(botAuthorRE,
                                                           AuthorOf(sample))])
    /\ UNCHANGED << clock, alive, config, service, cache, mu, pullsChecked, ev >>

\* p.checkCommitMetadata(repoCommit) returns or panics.
ClassifyMetadata ==
    /\ Pending("checkCommitMetadata")
    /\ callLog' = Append(callLog,
                         [fn |-> "checkCommitMetadata",
                          result |-> checkCommitMetadata(botAuthorRE,
                                                         AuthorOf(sample))])
    /\ UNCHANGED << clock, alive, config, service, cache, mu, pullsChecked, ev >>

NextAuthor == ClassifyAuthor \/ ClassifyMetadata

SpecAuthor == InitAuthor /\ [][NextAuthor]_vars

(***************************************************************************)
(* SpecBot: the deliveries for a pull request of one commit, handled one   *)
(* at a time, over the authors a commit may have and every setting of      *)
(* -bot-author-regexp.  The message carries whether it links an issue,     *)
(* the name whether it holds "[bot]".                                      *)
(***************************************************************************)
BotMessages ==
    { [text |-> "Bump golang.org/x/net from 0.1.0 to 0.2.0", links |-> FALSE],
      [text |-> "Bump golang.org/x/net\n\nFixes #12", links |-> TRUE],
      [text |-> "Revert 0123456789abcdef", links |-> FALSE],
      [text |-> "skip-issuebot: will file later", links |-> FALSE] }

BotNames ==
    { [text |-> "dependabot[bot]", tagged |-> TRUE],
      [text |-> "Release [bot] account", tagged |-> TRUE],
      [text |-> "Apple", tagged |-> FALSE],
      [text |-> "Alice", tagged |-> FALSE] }

BotEmails ==
    { Nil,
      Ptr("49699333+dependabot[bot]@users.noreply.github.com"),
      Ptr("noreply+apple@example.com"),
      Ptr("alice@example.com") }

\* The changed lines of the commit: below and above the small-diff limit.
BotStats == {2, 10}

BotSamples ==
    [message : BotMessages, name : BotNames, email : BotEmails, stats : BotStats]

\* The commit of a sample.
CommitOf(sm) ==
    Commit(sm.message.text, CommitAuthor(Ptr(sm.name.text), sm.email), sm.stats)

InitBot ==
    /\ InitService
    /\ botAuthorRE \in Patterns
    /\ enableStubIssues \in BOOLEAN
    /\ sample \in BotSamples
    /\ prCommits = [p \in PRs |-> << CommitOf(sample) >>]
    /\ perPage = MaxPerPage

SpecBot == InitBot /\ [][NextEval]_vars

(***************************************************************************)
(* SpecDeliver: the deliveries for the pull requests of the repository     *)
(* handled one at a time, the clock advancing by one second at a time.     *)
(* The pull requests all carry the same history: debounce never looks at   *)
(* the commits.                                                            *)
(***************************************************************************)
InitDeliver ==
    /\ InitState
    /\ enableStubIssues = TRUE
    /\ prCommits \in { [p \in PRs |-> h] : h \in Histories }
    /\ perPage = MaxPerPage

NextDeliver ==
    \/ Tick(1)
    \/ \E p \in PRs : Deliver(1, p, 1)
    \/ Evaluate(1)

SpecDeliver == InitDeliver /\ [][NextDeliver]_vars

(***************************************************************************)
(* Properties.                                                             *)
(***************************************************************************)

\* The evaluation of worker w has run to completion (it was not debounced).
Completed(w) == ev[w].pc = "done" /\ ~ev[w].skip

\* The failing status on head commit sha, written out field by field.
FailingStatus(sha) ==
    [sha |-> sha, context |-> "issuebot", state |-> "failure",
     description |->
        "Any non-trivial git commit must link to a GitHub issue tracking the work. Edit each commit with a tag like \"Updates #nn\", and update the PR."]

\* C1: an evaluation that runs to completion has written a status if and
\* only if its final disposition is Failed; the status it wrote is on the
\* head commit of the pull request, with state "failure" and the fixed
\* explanation; and no status other than a failing one is ever written.
C1_FailingStatusIffFailed ==
    /\ \A w \in Workers :
          Completed(w) =>
             /\ Called(w, "CreateStatus", "ok") <=> ev[w].status = prFailed
             /\ ev[w].status = prFailed => FailingStatus(ev[w].sha) \in statuses
    /\ \A st \in statuses : st = FailingStatus(st.sha)

\* C1's case: a completed evaluation with final disposition Failed and its
\* failing status written.
C1_Witness ==
    \E w \in Workers :
        /\ Completed(w)
        /\ ev[w].status = prFailed
        /\ Called(w, "CreateStatus", "ok")
        /\ FailingStatus(ev[w].sha) \in statuses

\* The disposition of each kind of commit by itself under each pattern: the
\* larger of what the message classifier and the bot-author check give.
DispTable ==
    [re \in Patterns |->
        [c \in CommitKinds |->
            LET a == checkCommitMessage(c.message)
                b == checkCommitMetadata(re, c.author) IN
            IF a >= b THEN a ELSE b]]

\* The disposition of commit c by itself.
DispOf(c) == DispTable[botAuthorRE][c]

\* Pull request p has no commit that links to an issue and no exemption: every
\* commit is Failed by itself and the whole diff is of 5 lines or more.
Unlinked(p) ==
    LET h == prCommits[p]
        RECURSIVE Total(_)
        Total(n) == IF n = 0 THEN 0 ELSE h[n].stats + Total(n - 1) IN
    /\ \A k \in 1..Len(h) : DispOf(h[k]) = prFailed
    /\ Total(Len(h)) >= 5

\* C2 (as claimed): once every delivery has been handled, the head commit
\* carried by each delivery for an unlinked pull request has a failing status.
\* (A failed remote call ends the process, so a handler that has ended has
\* seen every call succeed; with no handler in flight and no delivery to
\* come, no status is written later.)
C2_FailingStatusOnEveryHead ==
    (\A v \in Workers : ev[v].pc \in {"idle", "done"}) =>
        \A w \in Workers :
            ev[w].pc = "done" /\ Unlinked(ev[w].pr)
                => FailingStatus(ev[w].sha) \in statuses

\* The largest disposition among the first n commits of history h.
RECURSIVE MaxDisp(_, _)
MaxDisp(h, n) ==
    IF n = 0 THEN prFailed
    ELSE LET m == MaxDisp(h, n - 1) IN
         IF DispOf(h[n]) > m THEN DispOf(h[n]) ELSE m

\* The number of commits of h the scan examines: up to and including the
\* first one whose disposition is above Skipped, all of them when none is.
Examined(h) ==
    IF \E k \in 1..Len(h) : DispOf(h[k]) > prSkipped
    THEN CHOOSE k \in 1..Len(h) :
            /\ DispOf(h[k]) > prSkipped
            /\ \A j \in 1..(k - 1) : DispOf(h[j]) <= prSkipped
    ELSE Len(h)

\* The changed lines of the first n commits of h.
RECURSIVE SumStats(_, _)
SumStats(h, n) == IF n = 0 THEN 0 ELSE h[n].stats + SumStats(h, n - 1)

\* C3 (as claimed): when scanning ends, the accumulated disposition is the
\* maximum over the whole sequence of commits.
C3_MaxOverAllCommits ==
    \A w \in Workers :
        ev[w].pc = "scanned"
            => ev[w].status = MaxDisp(prCommits[ev[w].pr], Len(prCommits[ev[w].pr]))

\* C3 (amended): when scanning ends, the accumulated disposition is the
\* maximum over the commits examined, which are those up to and including the
\* first commit whose disposition is above Skipped; this holds for every
\* page size.
C3_MaxOverExamined ==
    \A w \in Workers :
        ev[w].pc = "scanned"
            => ev[w].status =
                  MaxDisp(prCommits[ev[w].pr], Examined(prCommits[ev[w].pr]))

\* C3's case: a scan that has ended before the last commit, with a later
\* commit of a larger disposition than the one accumulated.
C3_Witness ==
    \E w \in Workers :
        LET h == prCommits[ev[w].pr] IN
        /\ ev[w].pc = "scanned"
        /\ Examined(h) < Len(h)
        /\ ev[w].status = MaxDisp(h, Examined(h))
        /\ ev[w].status < MaxDisp(h, Len(h))

\* The number of calls of op that evaluation w has made.
CountCalls(w, op) ==
    Cardinality({ k \in 1..Len(ev[w].calls) : ev[w].calls[k][1] = op })

\* C4: a page is requested only while the accumulated disposition is Failed
\* or Skipped; when scanning ends, a disposition above Skipped was found or
\* the listing reported no next page; the pages requested are exactly those
\* that hold the commits up to the first one above Skipped; and a commit with
\* an issue link that follows only commits at or below Skipped yields
\* IssueLinked.
C4_EarlyExit ==
    \A w \in Workers :
        LET h == prCommits[ev[w].pr] IN
        /\ ev[w].pc = "list" => ev[w].status <= prSkipped
        /\ ev[w].pc = "scanned" =>
              /\ ev[w].status > prSkipped \/ ev[w].nextPage = 0
              /\ CountCalls(w, "GetCommit") = Examined(h)
              /\ CountCalls(w, "ListCommits") =
                    (Examined(h) + perPage - 1) \div perPage
              /\ DispOf(h[Examined(h)]) = prLinked => ev[w].status = prLinked

\* C4's case: a Skipped commit on the first page, a commit with an issue link
\* on the second, and the scan ended with IssueLinked after two listings.
C4_Witness ==
    \E w \in Workers :
        LET h == prCommits[ev[w].pr] IN
        /\ ev[w].pc = "scanned"
        /\ Len(h) = 2 /\ perPage = 1
        /\ DispOf(h[1]) = prSkipped /\ DispOf(h[2]) = prLinked
        /\ CountCalls(w, "ListCommits") = 2
        /\ ev[w].status = prLinked

\* C5: leaving the scan with accumulated disposition Failed or Skipped and
\* fewer than 5 changed lines over the examined commits, the disposition
\* becomes SmallDiff and the evaluation ends there (no stub-issue call, no
\* status); otherwise the disposition is left as it is.
C5_SmallDiff ==
    [][\A w \in Workers :
        ev[w].pc = "scanned" /\ ev'[w].pc # "scanned" =>
           LET h == prCommits[ev[w].pr]
               total == SumStats(h, Examined(h)) IN
           /\ ev[w].totalDiff = total
           /\ ev'[w].status =
                 IF ev[w].status \in {prFailed, prSkipped} /\ total < 5
                 THEN prSmall ELSE ev[w].status
           /\ ev'[w].status = prSmall =>
                 ev'[w].pc = "done" /\ ev'[w].calls = ev[w].calls]_vars

\* C5's case: a completed evaluation of a pull request with a skip-issuebot
\* commit and a small diff, ended with SmallDiff and no stub-issue call.
C5_Witness ==
    \E w \in Workers :
        /\ Completed(w)
        /\ ev[w].status = prSmall
        /\ enableStubIssues
        /\ \E k \in 1..Len(prCommits[ev[w].pr]) :
              Contains(prCommits[ev[w].pr][k].message, "skip-issuebot")
        /\ CountCalls(w, "ListByRepo") = 0 /\ CountCalls(w, "Create") = 0

\* The last remote call of evaluation w, << "", "" >> when it has made none.
LastCall(w) ==
    IF Len(ev[w].calls) = 0 THEN << "", "" >> ELSE ev[w].calls[Len(ev[w].calls)]

\* C6: within one evaluation an issue is created only with final disposition
\* Skipped, with stub-issue creation enabled, and after a stub lookup of the
\* same evaluation that returned no issue number; a lookup that returns an
\* issue number ends the evaluation with no issue and no comment created.
C6_CreateOnlyAfterLookup ==
    \A w \in Workers :
        /\ ev[w].pc = "createIssue" => ev[w].issue = 0
        /\ ev[w].pc = "createIssue" \/ CountCalls(w, "Create") > 0 =>
              /\ ev[w].status = prSkipped
              /\ enableStubIssues
              /\ CountCalls(w, "ListByRepo") = 1
        /\ \A k \in 1..Len(ev[w].calls) :
              ev[w].calls[k][1] = "Create" =>
                 \E j \in 1..(k - 1) : ev[w].calls[j][1] = "ListByRepo"
        /\ LastCall(w)[1] \in {"ListByRepo", "ListComments"} /\ ev[w].issue > 0 =>
              /\ ev[w].pc = "done"
              /\ CountCalls(w, "Create") = 0
              /\ CountCalls(w, "CreateComment") = 0

\* C6's case: a completed evaluation whose stub lookup returned the number of
\* an existing issue, and which created neither an issue nor a comment.
C6_Witness ==
    \E w \in Workers :
        /\ Completed(w)
        /\ ev[w].status = prSkipped
        /\ LastCall(w) = << "ListByRepo", "ok" >>
        /\ ev[w].issue > 0
        /\ CountCalls(w, "Create") = 0

\* The kinds of commit whose message contains "skip-issuebot".
SkipTagged == { c \in CommitKinds : Contains(c.message, "skip-issuebot") }

\* Some commit of pull request p contains "skip-issuebot".
HasSkipTag(p) == \E k \in 1..Len(prCommits[p]) : prCommits[p][k] \in SkipTagged

\* Every remote call of evaluation w has succeeded.
AllCallsOk(w) == \A k \in 1..Len(ev[w].calls) : ev[w].calls[k][2] = "ok"

\* The tracker and the thread of w's pull request hold nothing but what
\* evaluation w itself has created.
NoPriorStub(w) ==
    /\ Len(issues) = CountCalls(w, "Create")
    /\ Len(comments[ev[w].pr]) = CountCalls(w, "CreateComment")

\* Evaluation w has created exactly one issue, titled for its pull request,
\* posted exactly one comment, which refers to that issue, and has written no
\* status.
OneStubCreated(w) ==
    /\ CountCalls(w, "Create") = 1
    /\ CountCalls(w, "CreateComment") = 1
    /\ Len(issues) = 1
    /\ issues[1].title = << "Placeholder issue for PR #%d", ev[w].pr >>
    /\ comments[ev[w].pr] = << << issueCommentTemplate, 1 >> >>
    /\ CountCalls(w, "CreateStatus") = 0
    /\ FailingStatus(ev[w].sha) \notin statuses

\* C7 (as claimed): a completed evaluation of a pull request with a
\* skip-issuebot commit and no commit that mentions an issue has created one
\* stub issue and one comment and has not marked the pull request failing
\* (stub-issue creation enabled, no prior stub, every call succeeding).
C7_StubForEverySkip ==
    \A w \in Workers :
        ( /\ Completed(w)
          /\ enableStubIssues
          /\ HasSkipTag(ev[w].pr)
          /\ \A k \in 1..Len(prCommits[ev[w].pr]) :
                checkCommitMessage(prCommits[ev[w].pr][k].message) # prLinked
          /\ NoPriorStub(w)
          /\ AllCallsOk(w) )
        => OneStubCreated(w)

\* C7 (amended): the same, for a pull request none of whose commits has a
\* disposition above Skipped and whose whole diff is of 5 lines or more.
C7_StubWhenSkippedIsBest ==
    \A w \in Workers :
        ( /\ Completed(w)
          /\ enableStubIssues
          /\ HasSkipTag(ev[w].pr)
          /\ \A k \in 1..Len(prCommits[ev[w].pr]) :
                DispOf(prCommits[ev[w].pr][k]) <= prSkipped
          /\ SumStats(prCommits[ev[w].pr], Len(prCommits[ev[w].pr])) >= 5
          /\ NoPriorStub(w)
          /\ AllCallsOk(w) )
        => OneStubCreated(w)

\* C7's case: a completed evaluation that has created the stub issue and
\* posted the comment for a pull request with a skip-issuebot commit.
C7_Witness ==
    \E w \in Workers :
        /\ Completed(w)
        /\ enableStubIssues
        /\ HasSkipTag(ev[w].pr)
        /\ NoPriorStub(w)
        /\ AllCallsOk(w)
        /\ OneStubCreated(w)

\* The tracker holds an open issue with the stub title of pull request p under
\* the stub label, assigned to its author, or the thread of p holds a comment
\* that the recognition pattern matches.
StubOnRecord(p) ==
    \/ \E n \in 1..Len(issues) :
          /\ issues[n].state = "open"
          /\ issues[n].title = << "Placeholder issue for PR #%d", p >>
          /\ "issuebot-stub" \in issues[n].labels
          /\ issues[n].assignee = prUser[p]
    \/ \E k \in 1..Len(comments[p]) : MatchComment(comments[p][k]) # Nil

\* C8 (as claimed): no issue is created for a pull request at a moment when
\* its stub issue or its stub comment is on record.
C8_NeverSecondStub ==
    [][\A w \in Workers :
          ev[w].pc = "createIssue" /\ Len(issues') > Len(issues)
              => ~StubOnRecord(ev[w].pr)]_vars

\* The pairs i < j of calls in callLog that are for the same key.
SameKeyPairs ==
    { ij \in (1..Len(callLog)) \X (1..Len(callLog)) :
        ij[1] < ij[2] /\ callLog[ij[1]].key = callLog[ij[2]].key }

\* The call that debounce is executing for worker w has left no entry older
\* than the interval in the cache, whatever its key.
NoStaleEntry ==
    \A w \in Workers :
        ev[w].pc = "locked" =>
            \A k \in DOMAIN cache : ev[w].now - cache[k] <= 5

\* C9 (as claimed): of two calls with the same key within 5 seconds of each
\* other the second returns skip; two calls with the same key more than 5
\* seconds apart both return proceed; and a call leaves no entry older than
\* 5 seconds.
C9_AnyTwoCalls ==
    /\ \A ij \in SameKeyPairs :
          LET a == callLog[ij[1]]
              b == callLog[ij[2]] IN
          /\ b.now - a.now <= 5 => b.skip
          /\ b.now - a.now > 5 => ~a.skip /\ ~b.skip
    /\ NoStaleEntry

\* C9 (amended): of two calls with the same key, the first of which returned
\* proceed, the second returns skip when it is made within 5 seconds of the
\* first; a call returns proceed when no earlier call with its key that
\* returned proceed lies within the 5 seconds before it (so a call made more
\* than 5 seconds after every earlier call with its key returns proceed); and
\* a call leaves no entry older than 5 seconds, whatever its key.
C9_AfterLastProceed ==
    /\ \A ij \in SameKeyPairs :
          LET a == callLog[ij[1]]
              b == callLog[ij[2]] IN
          ~a.skip /\ b.now - a.now <= 5 => b.skip
    /\ \A j \in 1..Len(callLog) :
          (\A i \in 1..(j - 1) :
              callLog[i].key = callLog[j].key /\ ~callLog[i].skip
                  => callLog[j].now - callLog[i].now > 5)
          => ~callLog[j].skip
    /\ NoStaleEntry

\* C9's case: three calls with one key, the first returning proceed, the
\* second skip, and the third, within 5 seconds of the second but more than 5
\* seconds after the first, proceed.
C9_Witness ==
    \E i, j, k \in 1..Len(callLog) :
        /\ i < j /\ j < k
        /\ callLog[i].key = callLog[j].key /\ callLog[j].key = callLog[k].key
        /\ ~callLog[i].skip /\ callLog[j].skip /\ ~callLog[k].skip
        /\ callLog[k].now - callLog[j].now <= 5
        /\ callLog[k].now - callLog[i].now > 5

\* C10: debounce is executed by one worker at a time, so two callers never both
\* find the same key absent; of the calls with one key that fall within one
\* interval, at most one returns proceed; and the first call with a key, which
\* finds no entry, returns proceed.
C10_AtomicCheckAndInsert ==
    /\ \A w, v \in Workers :
          w # v => ~(ev[w].pc = "locked" /\ ev[v].pc = "locked")
    /\ \A ij \in SameKeyPairs :
          callLog[ij[2]].now - callLog[ij[1]].now <= 5
              => ~(~callLog[ij[1]].skip /\ ~callLog[ij[2]].skip)
    /\ \A j \in 1..Len(callLog) :
          (\A i \in 1..(j - 1) : callLog[i].key # callLog[j].key)
              => ~callLog[j].skip

\* C10's case: two calls with one key at the same instant, neither preceded by
\* a call with that key, of which the first returned proceed and the second
\* skip.
C10_Witness ==
    \E ij \in SameKeyPairs :
        /\ callLog[ij[1]].now = callLog[ij[2]].now
        /\ \A i \in 1..(ij[1] - 1) : callLog[i].key # callLog[ij[1]].key
        /\ ~callLog[ij[1]].skip
        /\ callLog[ij[2]].skip

\* The position in evaluation w's calls of the first failed call of op, or 0.
FirstFailure(w, op) ==
    LET ks == { k \in 1..Len(ev[w].calls) : ev[w].calls[k] = << op, "err" >> } IN
    IF ks = {} THEN 0 ELSE CHOOSE k \in ks : \A o \in ks : k <= o

\* Whether evaluation w had a commit listing or a commit fetch fail.
ScanFailed(w) ==
    FirstFailure(w, "ListCommits") > 0 \/ FirstFailure(w, "GetCommit") > 0

\* C11: when a ListCommits or GetCommit call fails during the scan, the
\* evaluation aborts at that point: the failed call is the last remote call
\* it makes (no retry, no stub-issue lookup or creation, no status
\* annotation) and the evaluation takes no further step.
C11_ScanFailureAborts ==
    \A w \in Workers :
        ScanFailed(w) =>
            /\ Max(FirstFailure(w, "ListCommits"),
                   FirstFailure(w, "GetCommit")) = Len(ev[w].calls)
            /\ CountCalls(w, "CreateStatus") = 0
            /\ CountCalls(w, "ListByRepo") = 0
            /\ CountCalls(w, "Create") = 0
            /\ ev[w].pc = "fatal"
            /\ ~alive

\* C11's case: the fetch of the second commit failed after a listing and a
\* fetch that succeeded, and the evaluation stopped there.
C11_Witness ==
    \E w \in Workers :
        /\ ev[w].pc = "fatal"
        /\ ev[w].calls = << << "ListCommits", "ok" >>, << "GetCommit", "ok" >>,
                            << "GetCommit", "err" >> >>
        /\ statuses = {}

\* C12: in createStubIssue, when the issue was created and the comment could
\* not be posted, the operation still returns the number of the created issue
\* and no error, and the evaluation completes as it does when the comment is
\* posted (no further call, no failing status); when the creation fails, the
\* operation returns 0 with an error and posts no comment.
C12_CommentFailureKeepsIssue ==
    \A w \in Workers :
        /\ (ev[w].pc # "createComment" /\ Called(w, "Create", "ok")
              /\ LastCall(w) = << "CreateComment", "err" >>) =>
              /\ ev[w].issue > 0
              /\ ev[w].issue <= Len(issues)
              /\ issues[ev[w].issue] = IssueRequest(ev[w].pr)
              /\ ev[w].err = ""
              /\ ev[w].pc = "done"
              /\ ev[w].status = prSkipped
              /\ CountCalls(w, "CreateStatus") = 0
        /\ Called(w, "Create", "err") =>
              /\ ev[w].issue = 0
              /\ ev[w].err = "creating issue"
              /\ CountCalls(w, "CreateComment") = 0
              /\ LastCall(w) = << "Create", "err" >>
              /\ ev[w].pc = "done"

\* C12's case: the issue was created, the comment failed, and the evaluation
\* is over with the issue's number as the result.
C12_Witness ==
    \E w \in Workers :
        /\ ev[w].pc = "done"
        /\ Called(w, "Create", "ok")
        /\ LastCall(w) = << "CreateComment", "err" >>
        /\ ev[w].issue = Len(issues)
        /\ comments[ev[w].pr] = << >>

\* The remote calls of checkStubIssue and createStubIssue.
StubOps == {"ListByRepo", "ListComments", "Create", "CreateComment"}

\* Whether some call of the stub-issue manager failed in evaluation w.
StubFailed(w) == \E op \in StubOps : Called(w, op, "err")

\* C13: an error of any call of the find-or-create sequence (issue listing,
\* comment listing, issue creation, comment posting) leaves the disposition
\* at Skipped: the evaluation goes on to its end inside the sequence, writes
\* no failing status and the process stays up.
C13_StubErrorsKeepSkipped ==
    \A w \in Workers :
        StubFailed(w) =>
            /\ ev[w].status = prSkipped
            /\ ev[w].pc \in {"listComments", "createIssue", "createComment", "done"}
            /\ CountCalls(w, "CreateStatus") = 0
            /\ FailingStatus(ev[w].sha) \notin statuses
            /\ alive

\* C13's case: the issue listing and the issue creation both failed and the
\* evaluation is over, Skipped, with no status written.
C13_Witness ==
    \E w \in Workers :
        /\ ev[w].pc = "done"
        /\ ev[w].calls = << << "ListCommits", "ok" >>, << "GetCommit", "ok" >>,
                            << "ListByRepo", "err" >>, << "Create", "err" >> >>
        /\ ev[w].status = prSkipped
        /\ statuses = {}

\* Whether the stub lookup of evaluation w failed (checkStubIssue returned an
\* error).
LookupFailed(w) ==
    Called(w, "ListByRepo", "err") \/ Called(w, "ListComments", "err")

\* C14: a failed ListByRepo or ListComments call of the stub lookup is not
\* taken for a lookup that found no stub: an evaluation whose lookup failed
\* makes no call to create an issue.
C14_NoCreateAfterFailedLookup ==
    \A w \in Workers : LookupFailed(w) => CountCalls(w, "Create") = 0

\* What the classifier returned for the sample at hand.
Returned(fn) ==
    \E k \in 1..Len(callLog) : callLog[k].fn = fn

ResultOf(fn) ==
    callLog[CHOOSE k \in 1..Len(callLog) : callLog[k].fn = fn].result

\* Whether some line of the sample opens with a verb and holds "#" or
\* "github.com"; whether the sample holds "skip-issuebot"; "#cleanup".
SampleLinks == sample.first.links \/ sample.verb.links \/ sample.tail.links
SampleSkips == sample.first.skip \/ sample.verb.skip \/ sample.tail.skip
SampleCleans == sample.first.cleanup \/ sample.verb.cleanup \/ sample.tail.cleanup

\* C15: for every message whose first line starts with "Revert",
\* checkCommitMessage returns Revert, whatever the rest of the message holds
\* (a later line with a verb and "#", "skip-issuebot", "#cleanup").
C15_RevertFirst ==
    (Returned("checkCommitMessage") /\ sample.first.revert) =>
        ResultOf("checkCommitMessage") = prRevert

\* C15's case: a revert whose later lines link an issue and carry both tags
\* was classified Revert.
C15_Witness ==
    /\ Returned("checkCommitMessage")
    /\ sample.first.text = "Revert 0123456789abcdef"
    /\ sample.verb.text = "Fixes #1"
    /\ sample.tail.text = "skip-issuebot, it is a #cleanup"
    /\ ResultOf("checkCommitMessage") = prRevert

\* Whether the sample has a line that opens with a verb and refers to the
\* issue in another format only, and no line that links.
SampleOtherFormatOnly ==
    /\ sample.verb.text # ""
    /\ ~SampleLinks

\* C16 as stated: every message with a line that opens (in any case) with a
\* verb and holds "#" or "github.com" is classified IssueLinked, and a verb
\* line whose reference is in another format does not make it IssueLinked.
C16_LinkingLineLinks ==
    Returned("checkCommitMessage") =>
        /\ SampleLinks => ResultOf("checkCommitMessage") = prLinked
        /\ SampleOtherFormatOnly => ResultOf("checkCommitMessage") # prLinked

\* C16: every message whose first line does not start with "Revert" and that
\* has a line that opens (in any case) with one of the verbs and holds "#" or
\* "github.com" is classified IssueLinked; a verb line whose reference is in
\* another format does not make the message IssueLinked.
C16_LinkingLineLinksUnlessRevert ==
    Returned("checkCommitMessage") =>
        /\ (SampleLinks /\ ~sample.first.revert) =>
              ResultOf("checkCommitMessage") = prLinked
        /\ SampleOtherFormatOnly => ResultOf("checkCommitMessage") # prLinked

\* C16's case: a line "RESOLVES https://github.com/..." after a first line
\* without a link, classified IssueLinked although the closing paragraph
\* holds both tags.
C16_Witness ==
    /\ Returned("checkCommitMessage")
    /\ sample.first.text = "Add a feature"
    /\ sample.verb.text = "RESOLVES https://github.com/tailscale/example/issues/1"
    /\ sample.tail.text = "#cleanup\nskip-issuebot"
    /\ ResultOf("checkCommitMessage") = prLinked

\* C17: a message whose first line does not start with "Revert" and that has
\* no linking line is classified Skipped when it holds "skip-issuebot" (also
\* beside "#cleanup"), else Cleanup when it holds "#cleanup", else Failed;
\* and the classifier returns one of Failed, Skipped, Cleanup, Revert and
\* IssueLinked for every message.
C17_TagsWithoutLink ==
    Returned("checkCommitMessage") =>
        /\ ResultOf("checkCommitMessage")
              \in {prFailed, prSkipped, prCleanup, prRevert, prLinked}
        /\ (~sample.first.revert /\ ~SampleLinks) =>
              ResultOf("checkCommitMessage") =
                 IF SampleSkips THEN prSkipped
                 ELSE IF SampleCleans THEN prCleanup
                 ELSE prFailed

\* C17's case: a verb line with a reference in another format, both tags in
\* the closing paragraph, classified Skipped.
C17_Witness ==
    /\ Returned("checkCommitMessage")
    /\ sample.first.text = "Add a feature"
    /\ sample.verb.text = "Updates XXX-123"
    /\ sample.tail.text = "#cleanup\nskip-issuebot"
    /\ ResultOf("checkCommitMessage") = prSkipped

\* C18 as stated: under a pattern with a capturing group, for an author whose
\* e-mail matches, isAutomationBotAuthor returns true exactly when the
\* captured text equals, in any case, the name with each run of whitespace
\* replaced by one hyphen; and false when the e-mail does not match.
C18_EveryRunHyphened ==
    (/\ botAuthorRE = GroupPattern
     /\ Returned("isAutomationBotAuthor")
     /\ sample.present /\ sample.name.ptr # Nil /\ sample.email.ptr # Nil) =>
        IF sample.email.captured = Nil
        THEN ResultOf("isAutomationBotAuthor") = "false"
        ELSE ResultOf("isAutomationBotAuthor") =
                IF ToLower(sample.email.captured[1]) = ToLower(sample.name.hyphened)
                THEN "true" ELSE "false"

\* C18: under a pattern with a capturing group, for an author whose e-mail
\* matches, isAutomationBotAuthor returns true exactly when the captured text
\* equals, in any case, the words of the name (whitespace at either end
\* dropped) joined by single hyphens; it returns false when the e-mail does
\* not match or the captured text differs by one character.
C18_WordsJoined ==
    (/\ botAuthorRE = GroupPattern
     /\ Returned("isAutomationBotAuthor")
     /\ sample.present /\ sample.name.ptr # Nil /\ sample.email.ptr # Nil) =>
        IF sample.email.captured = Nil
        THEN ResultOf("isAutomationBotAuthor") = "false"
        ELSE ResultOf("isAutomationBotAuthor") =
                IF ToLower(sample.email.captured[1]) = ToLower(sample.name.joined)
                THEN "true" ELSE "false"

\* C18's case: "OSS Updater" <noreply+oss-updater@example.com> is a bot under
\* the pattern with a group.
C18_Witness ==
    /\ botAuthorRE = GroupPattern
    /\ Returned("isAutomationBotAuthor")
    /\ sample.name.ptr = Ptr("OSS Updater")
    /\ sample.email.ptr = Ptr("noreply+oss-updater@example.com")
    /\ ResultOf("isAutomationBotAuthor") = "true"

\* C19: under a pattern without a capturing group a match of the e-mail is
\* enough: isAutomationBotAuthor returns true for every author with a name
\* and a matching e-mail; and it returns true or false, never failing, for
\* every author under every setting of the pattern.
C19_BareMatchSuffices ==
    Returned("isAutomationBotAuthor") =>
        /\ ResultOf("isAutomationBotAuthor") \in {"true", "false"}
        /\ (/\ botAuthorRE = BarePattern
            /\ sample.present /\ sample.name.ptr # Nil
            /\ sample.email.captured # Nil) =>
              ResultOf("isAutomationBotAuthor") = "true"

\* C20: isAutomationBotAuthor returns false, raising nothing, for a nil
\* author, an author without a name or without an e-mail, and for every
\* author when no pattern is set; checkCommitMetadata then finds no bot
\* unless the name holds "[bot]".
C20_AbsentIsNotBot ==
    (\/ ~sample.present \/ sample.name.ptr = Nil \/ sample.email.ptr = Nil
     \/ botAuthorRE = Nil) =>
        /\ Returned("isAutomationBotAuthor") =>
              ResultOf("isAutomationBotAuthor") = "false"
        /\ Returned("checkCommitMetadata") =>
              ResultOf("checkCommitMetadata") =
                 IF sample.name.ptr = Ptr("dependabot[bot]") THEN prBot
                 ELSE prFailed

\* C20's case: an author with a matching e-mail and no name, under a pattern,
\* found not to be a bot by both functions.
C20_Witness ==
    /\ botAuthorRE = GroupPattern
    /\ sample.present
    /\ sample.name.ptr = Nil
    /\ sample.email.ptr = Ptr("noreply+apple@example.com")
    /\ Returned("isAutomationBotAuthor")
    /\ ResultOf("isAutomationBotAuthor") = "false"
    /\ Returned("checkCommitMetadata")
    /\ ResultOf("checkCommitMetadata") = prFailed

\* Evaluation w has fetched and classified the commit of the sample.
Classified(w) == Called(w, "GetCommit", "ok")

\* What an evaluation of a pull request by a tagged bot never does: mark the
\* pull request failing, look a stub issue up, create one, or break off.
NoRejectNoStub(w) ==
    /\ CountCalls(w, "CreateStatus") = 0
    /\ CountCalls(w, "ListByRepo") = 0
    /\ CountCalls(w, "ListComments") = 0
    /\ CountCalls(w, "Create") = 0
    /\ CountCalls(w, "CreateComment") = 0
    /\ ev[w].pc \in {"scanned", "done"}
    /\ statuses = {}
    /\ issues = << >>

\* C21 as stated: a commit whose author's name holds "[bot]" gives
\* Bot-authored whatever the e-mail and the pattern, and a pull request whose
\* only commit has such an author ends Bot-authored, is not marked failing and
\* causes no stub-issue lookup or creation.
C21_TaggedBotEndsBot ==
    \A w \in Workers :
        (sample.name.tagged /\ Classified(w)) =>
            /\ ev[w].status = prBot
            /\ NoRejectNoStub(w)

\* C21: a commit whose author's name holds "[bot]" is accepted as
\* bot-authored whatever the e-mail and the pattern: a pull request whose
\* only commit has such an author ends Bot-authored, or IssueLinked when the
\* message of the commit links an issue, is not marked failing and causes no
\* stub-issue lookup or creation.
C21_TaggedBotAccepted ==
    \A w \in Workers :
        (sample.name.tagged /\ Classified(w)) =>
            /\ ev[w].status = IF sample.message.links THEN prLinked ELSE prBot
            /\ NoRejectNoStub(w)

\* C21's case: a two-line commit by "dependabot[bot]" whose e-mail matches a
\* pattern without a group, evaluated to the end as Bot-authored.
C21_Witness ==
    \E w \in Workers :
        /\ ev[w].pc = "done" /\ Classified(w)
        /\ botAuthorRE = BarePattern
        /\ sample.name.text = "dependabot[bot]"
        /\ sample.email = Ptr("noreply+apple@example.com")
        /\ sample.stats = 2
        /\ ~sample.message.links
        /\ ev[w].status = prBot

\* The step is the return of debounce to worker w.
Returns(w) == ev[w].pc = "locked" /\ ev'[w].pc # "locked"

\* C22: a call of debounce that returns skip leaves the cache as it is, and
\* a call that returns proceed stores key -> now and changes nothing else;
\* an entry gets its time from no other step, so the time of a key is that of
\* the last call for the key that returned proceed; and a delivery that is
\* skipped ends there, having made no remote call.
C22_SkipLeavesTimestamp ==
    [][/\ \A w \in Workers :
             Returns(w) =>
                 LET key == Key(ev[w].pr) IN
                 IF ev'[w].skip
                 THEN /\ cache' = cache
                      /\ key \in DOMAIN cache
                      /\ ev[w].now - cache[key] <= debounceInterval
                 ELSE /\ key \notin DOMAIN cache
                      /\ DOMAIN cache' = DOMAIN cache \cup {key}
                      /\ cache'[key] = ev[w].now
                      /\ \A k \in DOMAIN cache : cache'[k] = cache[k]
       /\ \A k \in DOMAIN cache' :
             \/ k \in DOMAIN cache /\ cache'[k] = cache[k]
             \/ \E w \in Workers :
                   /\ Returns(w) /\ ~ev'[w].skip
                   /\ k = Key(ev[w].pr) /\ cache'[k] = ev[w].now
       /\ \A w \in Workers :
             ev'[w].skip =>
                 /\ ev'[w].calls = << >>
                 /\ ev'[w].pc = "done"
                 /\ (ev[w].skip => UNCHANGED << ev, service >>)]_vars

\* C22's case: a delivery was skipped some seconds after the evaluation that
\* stored the time of its key, and the cache still holds that earlier time.
C22_Witness ==
    \E w \in Workers :
        /\ ev[w].skip /\ ev[w].pc = "done" /\ ev[w].calls = << >>
        /\ Key(ev[w].pr) \in DOMAIN cache
        /\ cache[Key(ev[w].pr)] = 0
        /\ clock = 2
        /\ pullsChecked = 2

\* The positions of checkPullRequest between the return of debounce and its
\* own return.
InFlight ==
    {"list", "get", "scanned", "listIssues", "listComments", "createIssue",
     "createComment", "annotate"}

\* C23: a remote-call failure during the scan is fatal to the evaluation in
\* which it occurs and to no other: an evaluation of another pull request that
\* is in flight at that moment can take its next step.
C23_FailureIsLocal ==
    \A w, v \in Workers :
        (/\ ev[w].pc = "fatal" /\ ScanFailed(w)
         /\ ev[v].pc \in InFlight
         /\ ev[v].pr # ev[w].pr) =>
            ENABLED Evaluate(v)

\* Evaluation w has left the scan with every call answered and has chosen
\* what to do with the pull request.
Decided(w) ==
    \/ ev[w].pc \in {"listIssues", "listComments", "createIssue",
                     "createComment", "annotate"}
    \/ ev[w].pc = "done" /\ ~ev[w].skip
    \/ ev[w].pc = "fatal" /\ CountCalls(w, "CreateStatus") > 0

\* Evaluation w writes a failing status; evaluation w invokes the stub-issue
\* manager.
WritesFailing(w) == ev[w].pc = "annotate" \/ CountCalls(w, "CreateStatus") > 0
InvokesStub(w) == ev[w].pc = "listIssues" \/ CountCalls(w, "ListByRepo") > 0

\* What the commits of h decide, read off them as a multiset, with no regard
\* to their order or to pages: the pull request is marked failing when every
\* commit is Failed and the changed lines sum to 5 or more; the stub-issue
\* manager is wanted when no commit is above Skipped, some commit is Skipped
\* and the changed lines sum to 5 or more.
AllFailed(h) ==
    /\ \A k \in 1..Len(h) : DispOf(h[k]) = prFailed
    /\ SumStats(h, Len(h)) >= smallDiffLimit

BestIsSkipped(h) ==
    /\ \A k \in 1..Len(h) : DispOf(h[k]) <= prSkipped
    /\ \E k \in 1..Len(h) : DispOf(h[k]) = prSkipped
    /\ SumStats(h, Len(h)) >= smallDiffLimit

\* C24: whether an evaluation writes a failing status and whether it invokes
\* the stub-issue manager is decided by the multiset of the commits (their
\* dispositions and changed lines) alone, so it is the same for every order
\* of the commits and every split into pages, although the scan examines
\* only a prefix of them.
C24_OutcomeOfMultiset ==
    \A w \in Workers :
        Decided(w) =>
            LET h == prCommits[ev[w].pr] IN
            /\ WritesFailing(w) <=> AllFailed(h)
            /\ InvokesStub(w) <=> (enableStubIssues /\ BestIsSkipped(h))

\* C24's case: a commit with an issue link ahead of a Failed commit of 100
\* lines, one commit per page; the evaluation ended after one listing and one
\* fetch, with no status and no stub, as it does in the other order.
C24_Witness ==
    \E w \in Workers :
        /\ ev[w].pc = "done" /\ ~ev[w].skip
        /\ prCommits[ev[w].pr] = << cLinked, cPlain >>
        /\ perPage = 1
        /\ CountCalls(w, "ListCommits") = 1
        /\ CountCalls(w, "GetCommit") = 1
        /\ ~WritesFailing(w) /\ ~InvokesStub(w)

====
